---- MODULE Spec2Model ----
(***************************************************************************)
(* Model of robolake-cli: the generic message flattener and row builder    *)
(* of processor.py, and the parquet-backed table catalog of catalog.py.    *)
(*                                                                         *)
(* Four specifications share the variables below:                          *)
(*   SpecFlat  one call of ROSbagProcessor._flatten_ros_message            *)
(*   SpecRow   one run of ROSbagProcessor._convert_rosbags_to_dataframe    *)
(*   Spec      a catalog directory used through two DataCatalog handles    *)
(*   SpecRace  two processes, each in one call of _append_dataframe        *)
(***************************************************************************)
EXTENDS Integers, Sequences, FiniteSets, TLC

VARIABLES
    msg,      \* SpecFlat: the message object handed to _flatten_ros_message
    flat,     \* SpecFlat: what the call produced ([raised, err, d]) or NotCalled
    stream,   \* SpecRow: reader.messages(...), a sequence of [conn, ts, raw]
    data,     \* SpecRow: the list `data` of row dicts built so far
    disk,     \* Spec: tables/<name>.parquet, file name -> frame or NoFile
    views,    \* Spec: per handle, the views of its in-memory DuckDB connection
    hist,     \* Spec: per table, the batches written since the file was created
    last,     \* Spec: the outcome of the last catalog operation
    writers,  \* SpecRace: per process, where its _append_dataframe stands
    race      \* SpecRace: the files before the appends; did the calls overlap

vars == <<msg, flat, stream, data, disk, views, hist, last, writers, race>>

(***************************************************************************)
(* Python values as the flattener sees them.  A node is                    *)
(*   [k, v, names, kids]                                                   *)
(* k is the class of the value as the isinstance/hasattr tests of          *)
(* _flatten_ros_message tell it apart:                                     *)
(*   "int" "float" "str" "bool" "none"   the scalars of line 161           *)
(*   "list"     list or tuple, kids are the elements                       *)
(*   "struct"   has __slots__ (v = 1), _fields_and_field_types (v = 2) or  *)
(*              _type (v = 3); names[i] is a field, kids[i] what getattr   *)
(*              finds there                                                *)
(*   "opaque"   none of these; v > 0 when its __str__ raises, v the error  *)
(* and, only as kids of a struct, what reading the attribute does:         *)
(*   "missing"  the attribute is not set: AttributeError                   *)
(*   "raises"   the attribute is a property that raises, v the error       *)
(* Strings are numbered, floats are whole numbers: v is always an integer. *)
(***************************************************************************)
Node(k, v, names, kids) == [k |-> k, v |-> v, names |-> names, kids |-> kids]

Int_(v)   == Node("int", v, <<>>, <<>>)
Float_(v) == Node("float", v, <<>>, <<>>)
Str_(v)   == Node("str", v, <<>>, <<>>)
None_     == Node("none", 0, <<>>, <<>>)
List_(es) == Node("list", 0, <<>>, es)
Slots(names, kids) == Node("struct", 1, names, kids)
Opaque    == Node("opaque", 0, <<>>, <<>>)
OpaqueBad == Node("opaque", 1, <<>>, <<>>)
FieldTypes(names, kids) == Node("struct", 2, names, kids)
Ros1(names, kids) == Node("struct", 3, names, kids)
Missing   == Node("missing", 0, <<>>, <<>>)
Raises(e) == Node("raises", e, <<>>, <<>>)

\* isinstance(value, (int, float, str, bool, type(None)))
ScalarKinds == {"int", "float", "str", "bool", "none"}
IsScalar(n) == n.k \in ScalarKinds

\* hasattr(value, "__slots__") or hasattr(value, "_fields_and_field_types")
\* or hasattr(value, "_type")
IsStructured(n) == n.k = "struct"

\* The default of the max_array_elements parameter.
max_array_elements == 5

(***************************************************************************)
(* Text.  A string built by the f-strings of the flattener is the sequence *)
(* of its pieces: field names, ".", "[", the digits of an index, "]".      *)
(***************************************************************************)
\* str(i) of an enumerate index
IdxStr(i) == <<"0", "1", "2", "3", "4", "5", "6", "7", "8", "9">>[i + 1]

\* prefix.rstrip(".")
RECURSIVE RStripDot(_)
RStripDot(s) ==
    IF s # <<>> /\ s[Len(s)] = "." THEN RStripDot(SubSeq(s, 1, Len(s) - 1)) ELSE s

(***************************************************************************)
(* Values stored in the flat dict: [tag, of].  A scalar keeps its class    *)
(* and value; json.dumps and str() give a text, kept as the sequence of    *)
(* numbers it spells; the error placeholder keeps the error's message.     *)
(***************************************************************************)
ScalarVal(n) == [tag |-> n.k, of |-> IF n.k = "none" THEN <<>> ELSE <<n.v>>]
NoneVal      == [tag |-> "none", of |-> <<>>]
ErrorVal(e)  == [tag |-> "error", of |-> <<e>>]

KindCode(k) ==
    CASE k = "int" -> 1 [] k = "float" -> 2 [] k = "str" -> 3 [] k = "bool" -> 4
      [] k = "none" -> 5 [] k = "list" -> 6 [] k = "struct" -> 7 [] OTHER -> 8

\* json.dumps accepts scalars and lists or tuples of what it accepts;
\* anything else is a TypeError.
RECURSIVE JsonOk(_)
JsonOk(n) ==
    \/ IsScalar(n)
    \/ n.k = "list" /\ \A i \in 1..Len(n.kids) : JsonOk(n.kids[i])

RECURSIVE JsonText(_)
RECURSIVE JsonItems(_, _)
JsonItems(es, i) ==
    IF i > Len(es) THEN <<>> ELSE JsonText(es[i]) \o JsonItems(es, i + 1)
JsonText(n) ==
    IF n.k = "list" THEN <<-6>> \o JsonItems(n.kids, 1) \o <<-7>>
    ELSE <<KindCode(n.k), n.v>>

\* str(value): the repr of the elements, objects by class
RECURSIVE StrText(_)
RECURSIVE StrItems(_, _)
StrItems(es, i) ==
    IF i > Len(es) THEN <<>> ELSE StrText(es[i]) \o StrItems(es, i + 1)
StrText(n) ==
    IF n.k = "list" THEN <<-6>> \o StrItems(n.kids, 1) \o <<-7>>
    ELSE <<KindCode(n.k), n.v>>

JsonVal(n) == [tag |-> "json", of |-> JsonText(n)]
StrVal(n)  == [tag |-> "str", of |-> StrText(n)]

\* Does str(value) raise?  Only an object whose own __str__ raises.
StrRaises(n) == n.k = "opaque" /\ n.v > 0

(***************************************************************************)
(* A Python dict: a sequence of <<key, value>> with distinct keys, in      *)
(* insertion order.                                                        *)
(***************************************************************************)
Keys(d)      == {d[i][1] : i \in 1..Len(d)}
HasKey(d, k) == \E i \in 1..Len(d) : d[i][1] = k
Get(d, k)    == d[CHOOSE i \in 1..Len(d) : d[i][1] = k][2]

\* d[k] = v
DictSet(d, k, v) ==
    IF HasKey(d, k)
    THEN [i \in 1..Len(d) |-> IF d[i][1] = k THEN <<k, v>> ELSE d[i]]
    ELSE Append(d, <<k, v>>)

\* d.update(e)
RECURSIVE DictUpdate(_, _)
DictUpdate(d, e) ==
    IF e = <<>> THEN d
    ELSE DictUpdate(DictSet(d, e[1][1], e[1][2]), Tail(e))

(***************************************************************************)
(* ROSbagProcessor._flatten_ros_message.  A call returns                   *)
(*   [raised |-> FALSE, d |-> the flat dict]   or                          *)
(*   [raised |-> TRUE, err |-> the message]    when an exception leaves it *)
(* (d then holds what the caller's dict had received before the raise).    *)
(***************************************************************************)
Returned(d)     == [raised |-> FALSE, err |-> 0, d |-> d]
Raised(e, d)    == [raised |-> TRUE, err |-> e, d |-> d]

\* Lines 145-151: the field names.  __slots__ and _fields_and_field_types
\* name the fields whether or not they are set; the _type branch lists what
\* dir() finds and reads each attribute outside any try.
FirstRaising(m) ==
    IF \E i \in 1..Len(m.kids) : m.kids[i].k = "raises"
    THEN CHOOSE i \in 1..Len(m.kids) :
            /\ m.kids[i].k = "raises"
            /\ \A j \in 1..(i - 1) : m.kids[j].k # "raises"
    ELSE 0

RECURSIVE PresentFrom(_, _)
PresentFrom(m, i) ==
    IF i > Len(m.kids) THEN <<>>
    ELSE (IF m.kids[i].k = "missing" THEN <<>> ELSE <<i>>) \o PresentFrom(m, i + 1)

FieldIndices(m) ==
    IF m.v = 3 THEN PresentFrom(m, 1) ELSE [i \in 1..Len(m.kids) |-> i]

\* f"{prefix}{field}", f"{key}[{i}]" and the prefixes f"{key}." and
\* f"{key}[{i}]." of the recursive calls.
FieldKey(prefix, field) == prefix \o <<field>>
ElemKey(key, i)         == key \o <<"[", IdxStr(i), "]">>
ChildPrefix_NoDot(key)  == key
ChildPrefix(key)        == key \o <<".">>

\* len(value) <= max_array_elements
Expands_OffByOne(value) == Len(value.kids) < max_array_elements
Expands(value)          == Len(value.kids) <= max_array_elements

RECURSIVE FlattenRosMessage(_, _)
RECURSIVE FlattenElems(_, _, _, _)
RECURSIVE FlattenFields(_, _, _, _)

\* Lines 166-170: the elements of a short list, from element i on.
FlattenElems(value, key, i, result) ==
    IF i > Len(value.kids) THEN Returned(result)
    ELSE LET v  == value.kids[i]
             ek == ElemKey(key, i - 1)
         IN  IF IsScalar(v)
             THEN FlattenElems(value, key, i + 1, DictSet(result, ek, ScalarVal(v)))
             ELSE LET r == FlattenRosMessage(v, ChildPrefix(ek))
                  IN  IF r.raised THEN Raised(r.err, result)
                      ELSE FlattenElems(value, key, i + 1, DictUpdate(result, r.d))

\* Lines 157-184: one turn of the loop over the fields, its try and except.
FlattenField(m, prefix, i, result) ==
    LET field == m.names[i]
        value == m.kids[i]
        key   == FieldKey(prefix, field)
    IN  CASE value.k = "raises"  -> DictSet(result, key, ErrorVal(value.v))
          [] value.k = "missing" -> DictSet(result, key, NoneVal)
          [] IsScalar(value)     -> DictSet(result, key, ScalarVal(value))
          [] value.k = "list"    ->
                IF Expands(value)
                THEN LET r == FlattenElems(value, key, 1, result)
                     IN  IF r.raised THEN DictSet(r.d, key, ErrorVal(r.err)) ELSE r.d
                ELSE DictSet(result, key,
                             IF JsonOk(value) THEN JsonVal(value) ELSE StrVal(value))
          [] IsStructured(value) ->
                LET r == FlattenRosMessage(value, ChildPrefix(key))
                IN  IF r.raised THEN DictSet(result, key, ErrorVal(r.err))
                    ELSE DictUpdate(result, r.d)
          [] OTHER ->
                IF StrRaises(value) THEN DictSet(result, key, ErrorVal(value.v))
                ELSE DictSet(result, key, StrVal(value))

\* Line 156: for field in fields, from the j-th of them on.
FlattenFields(m, prefix, j, result) ==
    IF j > Len(FieldIndices(m)) THEN result
    ELSE FlattenFields(m, prefix, j + 1,
                       FlattenField(m, prefix, FieldIndices(m)[j], result))

FlattenRosMessage(m, prefix) ==
    IF ~IsStructured(m)
    THEN IF StrRaises(m) THEN Raised(m.v, <<>>)
         ELSE Returned(<< <<RStripDot(prefix), StrVal(m)>> >>)
    ELSE IF m.v = 3 /\ FirstRaising(m) # 0
         THEN Raised(m.kids[FirstRaising(m)].v, <<>>)
         ELSE Returned(FlattenFields(m, prefix, 1, <<>>))

(***************************************************************************)
(* The messages the specifications draw from.                              *)
(***************************************************************************)
\* Most elements of a generated short list.
MaxElems == 2

Scalars == {Int_(1), Float_(2), Str_(3), None_}
Leaves  == Scalars \cup {Opaque, OpaqueBad}
Faults  == {Missing, Raises(7)}

\* Values met as the elements of a list.
ElemVals ==
    { Int_(1), Str_(3), None_, Opaque, OpaqueBad,
      Slots(<<"x", "y">>, <<Int_(1), Float_(2)>>),
      Ros1(<<"x">>, <<Raises(7)>>),
      List_(<<Int_(1)>>) }

ShortLists ==
    UNION { { List_(es) : es \in [1..n -> ElemVals] } : n \in 0..MaxElems }

\* Lists of max_array_elements elements and of one more: distinct numbers,
\* one place taken by an element of any kind.
EdgeLists ==
    { List_([i \in 1..n |-> IF i = p THEN e ELSE Int_(10 + i)]) :
        e \in ElemVals, p \in {1, max_array_elements},
        n \in {max_array_elements, max_array_elements + 1} }

\* Lists of numbers of every length up to MaxElems past the threshold.
NumberLists ==
    { List_([i \in 1..n |-> Int_(10 + i)]) : n \in 0..(max_array_elements + MaxElems) }

InnerStructs ==
    { Slots(<<"x">>, <<k>>) : k \in Leaves \cup Faults } \cup
    { FieldTypes(<<"x", "y">>, <<k, Float_(2)>>) : k \in Scalars \cup Faults } \cup
    { Ros1(<<"x", "y">>, <<k, Str_(3)>>) : k \in Scalars \cup Faults } \cup
    { Slots(<<"p">>, <<Slots(<<"x", "y">>, <<Int_(1), k>>)>>) : k \in Scalars } \cup
    { Slots(<<>>, <<>>) }

FieldVals == Leaves \cup Faults \cup ShortLists \cup EdgeLists \cup NumberLists \cup InnerStructs

\* What the other field of a two-field message holds.
SiblingVals ==
    { Int_(4), Missing, Raises(8), List_(<<Int_(5), Int_(6)>>),
      Slots(<<"x">>, <<Float_(2)>>) }

\* The message of test_generic_extraction.py (MockPoseStamped); strings are
\* numbered: "base_link" is string 1.
MockTime       == Slots(<<"sec", "nanosec">>, <<Int_(1234567890), Int_(123456789)>>)
MockHeader     == Slots(<<"stamp", "frame_id">>, <<MockTime, Str_(1)>>)
MockPoint      == Slots(<<"x", "y", "z">>, <<Float_(1), Float_(2), Float_(3)>>)
MockQuaternion == Slots(<<"x", "y", "z", "w">>, <<Float_(0), Float_(0), Float_(0), Float_(1)>>)
MockPose       == Slots(<<"position", "orientation">>, <<MockPoint, MockQuaternion>>)
MockPoseStamped == Slots(<<"header", "pose">>, <<MockHeader, MockPose>>)

\* Messages of two fields under each way of naming the fields, of one
\* field, the message of the test, and values that are no message at all.
FlatMsgs ==
    { Slots(<<"a", "b">>, <<f, g>>) : f \in FieldVals, g \in SiblingVals } \cup
    { Slots(<<"a", "b">>, <<g, f>>) : f \in FieldVals, g \in SiblingVals } \cup
    { Node("struct", c, <<"a", "b">>, <<f, g>>) :
        c \in {2, 3}, f \in Leaves \cup Faults \cup InnerStructs, g \in SiblingVals } \cup
    { Node("struct", c, <<"a", "b">>, <<g, f>>) :
        c \in {2, 3}, f \in Leaves \cup Faults \cup InnerStructs, g \in SiblingVals } \cup
    { Slots(<<"a">>, <<f>>) : f \in FieldVals \ Faults } \cup
    { MockPoseStamped, Int_(1), Opaque, OpaqueBad, List_(<<Int_(1)>>) }

(***************************************************************************)
(* Values of the variables a specification does not use.                   *)
(***************************************************************************)
NotCalled == [called |-> FALSE, r |-> Returned(<<>>)]
Called(r) == [called |-> TRUE, r |-> r]

IdleFlat == msg = None_ /\ flat = NotCalled
IdleRow  == stream = <<>> /\ data = <<>>
IdleCat  == disk = <<>> /\ views = <<>> /\ hist = <<>> /\ last = <<>>
IdleRace == writers = <<>> /\ race = <<>>

(***************************************************************************)
(* SpecFlat: one call processor._flatten_ros_message(msg).                 *)
(***************************************************************************)
InitFlat ==
    /\ msg \in FlatMsgs
    /\ flat = NotCalled
    /\ IdleRow
    /\ IdleCat
    /\ IdleRace

Flatten ==
    /\ ~flat.called
    /\ flat' = Called(FlattenRosMessage(msg, <<>>))
    /\ UNCHANGED <<msg, stream, data, disk, views, hist, last, writers, race>>

NextFlat == Flatten

SpecFlat == InitFlat /\ [][NextFlat]_vars

(***************************************************************************)
(* Claims about the flattener (checked under SpecFlat).                    *)
(***************************************************************************)
\* A structured record all of whose leaves are scalars: nested records of
\* any depth, no sequences, no opaque values, every attribute readable.
RECURSIVE ScalarOnly(_)
ScalarOnly(m) ==
    /\ IsStructured(m)
    /\ \A i \in 1..Len(m.kids) : IsScalar(m.kids[i]) \/ ScalarOnly(m.kids[i])

\* The leaves of a scalar-only record, each with the field names on the way
\* to it from the root.
RECURSIVE LeafPaths(_)
LeafPaths(m) ==
    UNION { IF IsScalar(m.kids[i])
            THEN { [path |-> <<m.names[i]>>, leaf |-> m.kids[i]] }
            ELSE { [path |-> <<m.names[i]>> \o lp.path, leaf |-> lp.leaf] :
                     lp \in LeafPaths(m.kids[i]) }
          : i \in 1..Len(m.kids) }

\* The names of a path joined by dots.
RECURSIVE Dotted(_)
Dotted(p) == IF Len(p) <= 1 THEN p ELSE <<p[1], ".">> \o Dotted(Tail(p))

PoseStampedKeys ==
    { Dotted(<<"header", "stamp", "sec">>), Dotted(<<"header", "stamp", "nanosec">>),
      Dotted(<<"header", "frame_id">>),
      Dotted(<<"pose", "position", "x">>), Dotted(<<"pose", "position", "y">>),
      Dotted(<<"pose", "position", "z">>),
      Dotted(<<"pose", "orientation", "x">>), Dotted(<<"pose", "orientation", "y">>),
      Dotted(<<"pose", "orientation", "z">>), Dotted(<<"pose", "orientation", "w">>) }

\* C5: for a structured message whose leaves are all scalars, flatten
\* returns exactly one entry per leaf, keyed by the leaf's dotted path from
\* the root, with no leading or trailing dot, holding the leaf's value; for
\* the pose-stamped message of the test these are the 10 listed fields and
\* header.stamp.sec is 1234567890.
C5_FlattenScalarLeaves ==
    (flat.called /\ ScalarOnly(msg)) =>
        LET d == flat.r.d IN
        /\ ~flat.r.raised
        /\ Len(d) = Cardinality(LeafPaths(msg))
        /\ Keys(d) = { Dotted(lp.path) : lp \in LeafPaths(msg) }
        /\ \A lp \in LeafPaths(msg) :
              LET e == Get(d, Dotted(lp.path)) IN
              /\ e.tag = lp.leaf.k
              /\ lp.leaf.k # "none" => e.of = <<lp.leaf.v>>
        /\ \A k \in Keys(d) : k[1] # "." /\ k[Len(k)] # "."
        /\ msg = MockPoseStamped =>
              /\ Keys(d) = PoseStampedKeys
              /\ Cardinality(Keys(d)) = 10
              /\ Get(d, Dotted(<<"header", "stamp", "sec">>)).of = <<1234567890>>

\* C5 witness: the pose-stamped message has been flattened to 10 entries.
C5_Witness ==
    flat.called /\ msg = MockPoseStamped /\ Len(flat.r.d) = 10

\* The top-level fields of the message that hold a list or tuple.
ListFields ==
    IF IsStructured(msg)
    THEN { i \in 1..Len(msg.kids) : msg.kids[i].k = "list" }
    ELSE {}

\* The keys of the entries recorded for a top-level field.
EntriesOf(d, name) == { k \in Keys(d) : k # <<>> /\ k[1] = name }

\* <field>[0] .. <field>[n-1]
IndexKeys(name, n) == { <<name, "[", IdxStr(j), "]">> : j \in 0..(n - 1) }

FlattenReturned == flat.called /\ IsStructured(msg) /\ ~flat.r.raised

FieldFails(i) ==
    LET value == msg.kids[i] IN
    \/ value.k \in {"missing", "raises"}
    \/ StrRaises(value)
    \/ IsStructured(value) /\ FlattenRosMessage(value, <<>>).raised
    \/ /\ value.k = "list"
       /\ Len(value.kids) <= 5
       /\ \E j \in 1..Len(value.kids) :
             ~IsScalar(value.kids[j]) /\ FlattenRosMessage(value.kids[j], <<>>).raised

\* The message without its i-th field.
Without(m, i) ==
    Node(m.k, m.v,
         SubSeq(m.names, 1, i - 1) \o SubSeq(m.names, i + 1, Len(m.names)),
         SubSeq(m.kids, 1, i - 1) \o SubSeq(m.kids, i + 1, Len(m.kids)))

\* The entries of a dict recorded for a top-level field, keys and values.
ItemsOf(d, name) == { d[x] : x \in { y \in 1..Len(d) : d[y][1] # <<>> /\ d[y][1][1] = name } }

\* C7 as claimed: when extracting one field of a record fails, flatten still
\* returns; the field's path holds an error placeholder and nothing else is
\* recorded for the field; every other field has the entries it would have
\* without the failing field.
C7_AsClaimed ==
    (flat.called /\ IsStructured(msg)) =>
        \A i \in 1..Len(msg.kids) :
            FieldFails(i) =>
                /\ ~flat.r.raised
                /\ HasKey(flat.r.d, <<msg.names[i]>>)
                /\ Get(flat.r.d, <<msg.names[i]>>).tag = "error"
                /\ EntriesOf(flat.r.d, msg.names[i]) = { <<msg.names[i]>> }
                /\ \A j \in 1..Len(msg.kids) :
                      (j # i /\ ~FieldFails(j)) =>
                          ItemsOf(flat.r.d, msg.names[j]) =
                          ItemsOf(FlattenRosMessage(Without(msg, i), <<>>).d, msg.names[j])

(***************************************************************************)
(* ROSbagProcessor._extract_message_data and the loop of                   *)
(* _convert_rosbags_to_dataframe.  A stream element is [conn, ts, raw]:    *)
(* conn = [topic, msgtype] (numbered strings), ts the timestamp in         *)
(* nanoseconds, raw = [ok, obj, err] what reader.deserialize does with the *)
(* bytes: return obj, or raise err.                                        *)
(***************************************************************************)
\* The divisor 1e9 of the conversions to seconds.
NsPerSec == 1000000000

\* x / 1e9 and whole + x / 1e9, as <<whole seconds, nanoseconds left>>.
Seconds(whole, ns) == <<whole + (ns \div NsPerSec), ns % NsPerSec>>

TextVal(s)      == [tag |-> "str", of |-> <<s>>]
FloatVal(pair)  == [tag |-> "float", of |-> pair]

\* The message of the TypeError of sec + nanosec / 1e9 on a non-number.
TypeErrorOf(n) == 100 + KindCode(n.k)

\* getattr(n, name): the kid of that name, Missing when there is none.
Attr(n, name) ==
    IF n.k = "struct" /\ \E i \in 1..Len(n.names) : n.names[i] = name
    THEN n.kids[CHOOSE i \in 1..Len(n.names) : n.names[i] = name]
    ELSE Missing

IsNumber(n) == n.k \in {"int", "float", "bool"}

\* Lines 202-205.  hasattr is False on AttributeError and lets any other
\* exception through; the sum raises TypeError unless both are numbers.
\* [raised, err, has, val]
HeaderTimestamp(obj) ==
    LET header  == Attr(obj, "header")
        stamp   == Attr(header, "stamp")
        sec     == Attr(stamp, "sec")
        nanosec == Attr(stamp, "nanosec")
        none    == [raised |-> FALSE, err |-> 0, has |-> FALSE, val |-> <<>>]
        fail(e) == [raised |-> TRUE, err |-> e, has |-> FALSE, val |-> <<>>]
    IN  CASE header.k = "raises"   -> fail(header.v)
          [] header.k = "missing"  -> none
          [] stamp.k = "raises"    -> fail(stamp.v)
          [] stamp.k = "missing"   -> none
          [] sec.k = "raises"      -> fail(sec.v)
          [] sec.k = "missing"     -> none
          [] nanosec.k = "raises"  -> fail(nanosec.v)
          [] nanosec.k = "missing" -> none
          [] ~IsNumber(nanosec)    -> fail(TypeErrorOf(nanosec))
          [] ~IsNumber(sec)        -> fail(TypeErrorOf(sec))
          [] OTHER -> [raised |-> FALSE, err |-> 0, has |-> TRUE,
                       val |-> Seconds(sec.v, nanosec.v)]

\* Lines 195-199: the metadata every row starts from.
Metadata(m) ==
    << <<<<"topic">>, TextVal(m.conn.topic)>>,
       <<<<"timestamp">>, FloatVal(Seconds(0, m.ts))>>,
       <<<<"msgtype">>, TextVal(m.conn.msgtype)>> >>

\* Lines 215-220: the row of the except branch.
Degraded(m, e) ==
    << <<<<"topic">>, TextVal(m.conn.topic)>>,
       <<<<"timestamp">>, FloatVal(Seconds(0, m.ts))>>,
       <<<<"error">>, TextVal(e)>>,
       <<<<"msgtype">>, TextVal(m.conn.msgtype)>> >>

ExtractMessageData(m) ==
    IF ~m.raw.ok THEN Degraded(m, m.raw.err)
    ELSE LET h == HeaderTimestamp(m.raw.obj)
             withHeader ==
                 IF h.has
                 THEN DictSet(Metadata(m), <<"header_timestamp">>, FloatVal(h.val))
                 ELSE Metadata(m)
             flat_fields == FlattenRosMessage(m.raw.obj, <<>>)
         IN  CASE h.raised           -> Degraded(m, h.err)
               [] flat_fields.raised -> Degraded(m, flat_fields.err)
               [] OTHER              -> DictUpdate(withHeader, flat_fields.d)

\* Most messages in a generated stream.
MaxMsgs == 2

Conns  == { [topic |-> 1, msgtype |-> 1], [topic |-> 2, msgtype |-> 2] }
Stamps == { 1500000000, 2000000001 }

\* Deserialized messages: plain, with a ROS2 header stamp (sec, nanosec),
\* with a ROS1 one (secs, nsecs), with an array the reader hands over as an
\* object of its own, and with fields named like the row's own keys.
RowObjs ==
    { Slots(<<"x">>, <<Float_(2)>>),
      Slots(<<"header", "x">>, <<MockHeader, Float_(2)>>),
      Ros1(<<"header">>, <<Ros1(<<"stamp">>,
                  <<Ros1(<<"nsecs", "secs">>, <<Int_(4), Int_(5)>>)>>)>>),
      Slots(<<"ranges", "x">>, <<Opaque, Float_(3)>>),
      Slots(<<"error", "x">>, <<Float_(2), Float_(3)>>),
      Slots(<<"timestamp", "x">>, <<Int_(99), Float_(3)>>),
      Slots(<<"topic">>, <<Str_(9)>>),
      Slots(<<"msgtype">>, <<Str_(9)>>) }

Raws ==
    { [ok |-> FALSE, obj |-> None_, err |-> 3] } \cup
    { [ok |-> TRUE, obj |-> o, err |-> 0] : o \in RowObjs }

StreamMsgs == [conn : Conns, ts : Stamps, raw : Raws]

(***************************************************************************)
(* SpecRow: one run of _convert_rosbags_to_dataframe over `stream`, one    *)
(* turn of its loop at a time.                                             *)
(***************************************************************************)
InitRow ==
    /\ stream \in UNION { [1..n -> StreamMsgs] : n \in 1..MaxMsgs }
    /\ data = <<>>
    /\ IdleFlat
    /\ IdleCat
    /\ IdleRace

\* Lines 128-131: msg_data = self._extract_message_data(...); data.append(msg_data)
ConvertMessage ==
    /\ Len(data) < Len(stream)
    /\ data' = Append(data, ExtractMessageData(stream[Len(data) + 1]))
    /\ UNCHANGED <<msg, flat, stream, disk, views, hist, last, writers, race>>

NextRow == ConvertMessage

SpecRow == InitRow /\ [][NextRow]_vars

(***************************************************************************)
(* Claims about the rows (checked under SpecRow).                          *)
(***************************************************************************)
ConversionDone == Len(data) = Len(stream)

\* The messages of the stream whose deserialization fails.
FailedAt == { j \in 1..Len(stream) : ~stream[j].raw.ok }

RemoveAt(s, j) == SubSeq(s, 1, j - 1) \o SubSeq(s, j + 1, Len(s))

\* The rows of a whole run over a stream.
RECURSIVE ConvertAll(_)
ConvertAll(s) ==
    IF s = <<>> THEN <<>> ELSE <<ExtractMessageData(s[1])>> \o ConvertAll(Tail(s))

\* C3 as claimed: a run over N messages of which exactly one fails to
\* deserialize gives N rows, exactly one of them with an `error` field; that
\* row has the metadata fields and `error` only, and the other rows are
\* those of the run without the failing message.
C3_AsClaimed ==
    (ConversionDone /\ Cardinality(FailedAt) = 1) =>
        LET f == CHOOSE j \in FailedAt : TRUE IN
        /\ Len(data) = Len(stream)
        /\ Cardinality({ j \in 1..Len(data) : HasKey(data[j], <<"error">>) }) = 1
        /\ Keys(data[f]) = { <<"topic">>, <<"timestamp">>, <<"msgtype">>, <<"error">> }
        /\ RemoveAt(data, f) = ConvertAll(RemoveAt(stream, f))

\* C4 as claimed: every row has the connection's topic and message type and
\* the stream timestamp in seconds, whatever the message's fields are.
C4_AsClaimed ==
    \A j \in 1..Len(data) :
        /\ Get(data[j], <<"topic">>) = TextVal(stream[j].conn.topic)
        /\ Get(data[j], <<"msgtype">>) = TextVal(stream[j].conn.msgtype)
        /\ Get(data[j], <<"timestamp">>) =
              FloatVal(<<stream[j].ts \div 1000000000, stream[j].ts % 1000000000>>)

(***************************************************************************)
(* The catalog (catalog.py).  A table name is the sequence of its          *)
(* characters.  The directory tables/ maps a file name, the table name     *)
(* followed by ".parquet", to the frame stored there.  A frame is          *)
(* [exists, cols, rows]: the column names in order and the rows in order,  *)
(* rows[i][j] the cell of row i in column cols[j]; a cell is [null, v].    *)
(***************************************************************************)
T1   == <<"t", "1">>
T2   == <<"t", "2">>
Run1 == <<"r", "-", "1">>

Names == {T1, T2, Run1}

\* self.catalog_path / "tables" / f"{table_name}.parquet"
PathOf(name) == name \o <<".parquet">>

\* parquet_file.stem
Stem(file) ==
    IF Len(file) > 1 /\ file[Len(file)] = ".parquet"
    THEN SubSeq(file, 1, Len(file) - 1)
    ELSE file

Files == { PathOf(n) : n \in Names }

NoFile  == [exists |-> FALSE, cols |-> <<>>, rows |-> <<>>]
Frame(cols, rows) == [exists |-> TRUE, cols |-> cols, rows |-> rows]
Cell(v)  == [null |-> FALSE, v |-> v]
NullCell == [null |-> TRUE, v |-> 0]

ColSet(f) == { f.cols[j] : j \in 1..Len(f.cols) }
ColIndex(f, c) == CHOOSE j \in 1..Len(f.cols) : f.cols[j] = c
CellAt(f, i, c) == f.rows[i][ColIndex(f, c)]

\* The columns of b that a does not have, in b's order.
RECURSIVE NewCols(_, _)
NewCols(a, bcols) ==
    IF bcols = <<>> THEN <<>>
    ELSE (IF bcols[1] \in ColSet(a) THEN <<>> ELSE <<bcols[1]>>) \o NewCols(a, Tail(bcols))

\* The rows of f laid out on the columns `cols`, null where f has no column.
Reindex(f, cols) ==
    [i \in 1..Len(f.rows) |->
        [j \in 1..Len(cols) |->
            IF cols[j] \in ColSet(f) THEN CellAt(f, i, cols[j]) ELSE NullCell]]

\* pd.concat([existing_df, df], ignore_index=True)
Concat_Inner(a, b) ==
    LET cols == SelectSeq(a.cols, LAMBDA c : c \in ColSet(b))
    IN  Frame(cols, Reindex(a, cols) \o Reindex(b, cols))
Concat_Reversed(a, b) ==
    LET cols == b.cols \o NewCols(b, a.cols)
    IN  Frame(cols, Reindex(b, cols) \o Reindex(a, cols))
Concat(a, b) ==
    LET cols == a.cols \o NewCols(a, b.cols)
    IN  Frame(cols, Reindex(a, cols) \o Reindex(b, cols))

\* Lines 53-63 of _append_dataframe: the frame written to table_path.
Combined(d, name, df) ==
    IF d[PathOf(name)].exists THEN Concat(d[PathOf(name)], df) ELSE df

\* The engine's reading of a statement with table_name put into it as it
\* is: the statement parses when the name is one unquoted identifier.
IdentStart ==
    { "a", "b", "c", "d", "e", "f", "g", "h", "i", "j", "k", "l", "m", "n", "o",
      "p", "q", "r", "s", "t", "u", "v", "w", "x", "y", "z", "_" }
IdentRest == IdentStart \cup {"0", "1", "2", "3", "4", "5", "6", "7", "8", "9"}
EngineAccepts(name) ==
    /\ name # <<>>
    /\ name[1] \in IdentStart
    /\ \A i \in 1..Len(name) : name[i] \in IdentRest

\* A view of the connection: CREATE OR REPLACE VIEW name AS SELECT * FROM
\* read_parquet(path) keeps the path, and the columns the file had when the
\* statement ran.
NoView == [bound |-> FALSE, path |-> <<>>, cols |-> <<>>]
ViewOn(path, f) == [bound |-> TRUE, path |-> path, cols |-> f.cols]

\* list_tables(): the stems of tables/*.parquet
ExistingFiles(d) == { f \in Files : d[f].exists }
ListTables(d) == { Stem(f) : f \in ExistingFiles(d) }

\* The orders in which glob may yield the files.
GlobOrders(d) ==
    { o \in [1..Cardinality(ExistingFiles(d)) -> ExistingFiles(d)] :
        \A i, j \in DOMAIN o : i # j => o[i] # o[j] }

\* _load_tables_to_duckdb over the files in the order `order`, from the
\* i-th on: [raised, views].  A rejected statement ends the loop.
RECURSIVE LoadTables(_, _, _, _)
LoadTables_Nothing(v, d, order, i) == [raised |-> FALSE, views |-> v]
LoadTables(v, d, order, i) ==
    IF i > Len(order) THEN [raised |-> FALSE, views |-> v]
    ELSE LET name == Stem(order[i]) IN
         IF ~EngineAccepts(name) THEN [raised |-> TRUE, views |-> v]
         ELSE LoadTables([v EXCEPT ![name] = ViewOn(order[i], d[order[i]])],
                         d, order, i + 1)

(***************************************************************************)
(* The batches a conversion hands to the catalog.                          *)
(***************************************************************************)
\* Most batches held by the files of the catalog at a time.
MaxAppends == 3

\* Every cell tells its batch, row and column apart.
Batch(cols, n) ==
    Frame(cols, [i \in 1..n |-> [j \in 1..Len(cols) |->
                    Cell(100 * Len(cols) + 10 * n + 2 * i + j)]])

\* One row of x and z; two rows of y and x.
Batches == { Batch(<<"x", "z">>, 1), Batch(<<"y", "x">>, 2) }
EmptyBatch == Frame(<<>>, <<>>)

\* df.empty
IsEmpty_Never(df) == FALSE
IsEmpty(df) == Len(df.rows) = 0 \/ Len(df.cols) = 0

RECURSIVE SumLen(_, _)
SumLen(h, S) ==
    IF S = {} THEN 0
    ELSE LET n == CHOOSE x \in S : TRUE IN Len(h[n]) + SumLen(h, S \ {n})

(***************************************************************************)
(* Spec: one DataCatalog handle (disk, views) on a directory that another  *)
(* writer on the same directory also appends to.                           *)
(***************************************************************************)
Outcome(op, name, raised, ret, flag, result) ==
    [op |-> op, name |-> name, raised |-> raised, ret |-> ret, flag |-> flag,
     result |-> result]

Init ==
    /\ disk = [f \in Files |-> NoFile]
    /\ views = [n \in Names |-> NoView]
    /\ hist = [n \in Names |-> <<>>]
    /\ last = Outcome("init", <<>>, FALSE, TRUE, FALSE, NoFile)
    /\ IdleFlat
    /\ IdleRow
    /\ IdleRace

CanAppend == SumLen(hist, Names) < MaxAppends

\* The variables of the other specifications.
Elsewhere == <<msg, flat, stream, data, writers, race>>

\* append_rosbag(name, ...) whose conversion gave df.  An empty df returns
\* at once (lines 38-40, flag records it).  Otherwise _append_dataframe
\* writes the combined frame and then runs the view statement, which the
\* engine may reject: the exception reaches the caller.
AppendRosbag(name, df) ==
    /\ IsEmpty(df) \/ CanAppend
    /\ IF IsEmpty(df)
       THEN /\ last' = Outcome("append", name, FALSE, TRUE, TRUE, NoFile)
            /\ UNCHANGED <<disk, views, hist>>
       ELSE /\ disk' = [disk EXCEPT ![PathOf(name)] = Combined(disk, name, df)]
            /\ hist' = [hist EXCEPT ![name] = Append(@, df)]
            /\ IF EngineAccepts(name)
               THEN /\ views' = [views EXCEPT
                                   ![name] = ViewOn(PathOf(name), disk'[PathOf(name)])]
                    /\ last' = Outcome("append", name, FALSE, TRUE, FALSE, NoFile)
               ELSE /\ views' = views
                    /\ last' = Outcome("append", name, TRUE, FALSE, FALSE, NoFile)
    /\ UNCHANGED Elsewhere

\* _append_dataframe run through a DataCatalog of another process on the
\* same directory: the same file write; its views are its own.
AppendElsewhere(name, df) ==
    /\ CanAppend
    /\ ~IsEmpty(df)
    /\ disk' = [disk EXCEPT ![PathOf(name)] = Combined(disk, name, df)]
    /\ hist' = [hist EXCEPT ![name] = Append(@, df)]
    /\ last' = Outcome("elsewhere", name, FALSE, TRUE, FALSE, NoFile)
    /\ UNCHANGED views
    /\ UNCHANGED Elsewhere

\* _load_tables_to_duckdb
EnsureViews(order) ==
    LET r == LoadTables(views, disk, order, 1) IN
    /\ views' = r.views
    /\ last' = Outcome("ensure", <<>>, r.raised, ~r.raised, FALSE, NoFile)
    /\ UNCHANGED <<disk, hist>>
    /\ UNCHANGED Elsewhere

\* Is some persisted table without a view made from its current file?
SomeViewStale(v, d) ==
    \E f \in ExistingFiles(d) : v[Stem(f)] # ViewOn(f, d[f])

\* query("SELECT * FROM <name>"): the views are loaded, then the statement
\* runs; it reads the file the view names, and fails when there is no such
\* view or no such file.  flag records whether a view was stale at the call.
Query(name, order) ==
    LET r == LoadTables(views, disk, order, 1)
        v == r.views[name]
        ok == ~r.raised /\ v.bound /\ disk[v.path].exists
    IN  /\ views' = r.views
        /\ last' = Outcome("query", name, ~ok, ok, SomeViewStale(views, disk),
                           IF ok THEN disk[v.path] ELSE NoFile)
        /\ UNCHANGED <<disk, hist>>
        /\ UNCHANGED Elsewhere

\* What query("SELECT * FROM <name>") gives on views v and files d when glob
\* yields `order`: [ok, result].
Execute(v, d, name, order) ==
    LET r == LoadTables(v, d, order, 1)
        w == r.views[name]
        ok == ~r.raised /\ w.bound /\ d[w.path].exists
    IN  [ok |-> ok, result |-> IF ok THEN d[w.path] ELSE NoFile]

\* delete_table: unlink when the file exists (unlink may itself fail), then
\* DROP VIEW IF EXISTS name; any exception gives False.  flag records that
\* unlink failed.
DeleteTable(name, unlinkFails) ==
    /\ unlinkFails => disk[PathOf(name)].exists
    /\ IF unlinkFails
       THEN /\ UNCHANGED <<disk, views, hist>>
            /\ last' = Outcome("delete", name, FALSE, FALSE, TRUE, NoFile)
       ELSE /\ disk' = [disk EXCEPT ![PathOf(name)] = NoFile]
            /\ hist' = [hist EXCEPT ![name] = <<>>]
            /\ IF EngineAccepts(name)
               THEN /\ views' = [views EXCEPT ![name] = NoView]
                    /\ last' = Outcome("delete", name, FALSE, TRUE, FALSE, NoFile)
               ELSE /\ views' = views
                    /\ last' = Outcome("delete", name, FALSE, FALSE, FALSE, NoFile)
    /\ UNCHANGED Elsewhere

\* table_path.stat().st_size of a file holding the frame f: the bytes of the
\* file's framing, of its schema and of its cells; never 0 for a file.
SizeOf(f) == IF f.exists THEN 1 + Len(f.cols) + Len(f.rows) * Len(f.cols) ELSE 0

\* get_table_info(name), pd.read_parquet raising when readFails: the dict
\* returned (without its "name" entry).
NoInfo == [exists |-> FALSE, row_count |-> 0, columns |-> <<>>, size_bytes |-> 0]
TableInfo_NoRead(d, name, readFails) ==
    IF d[PathOf(name)].exists
    THEN [exists |-> TRUE, row_count |-> 0, columns |-> <<>>,
          size_bytes |-> SizeOf(d[PathOf(name)])]
    ELSE NoInfo
TableInfo(d, name, readFails) ==
    LET f == d[PathOf(name)] IN
    IF ~f.exists THEN NoInfo
    ELSE IF readFails
         THEN [NoInfo EXCEPT !.exists = TRUE, !.size_bytes = SizeOf(f)]
         ELSE [exists |-> TRUE, row_count |-> Len(f.rows), columns |-> f.cols,
               size_bytes |-> SizeOf(f)]

\* get_table_info: nothing is written; the read of the file may fail (flag
\* records it), which is logged and not raised.
GetTableInfo(name, readFails) ==
    /\ readFails => disk[PathOf(name)].exists
    /\ last' = Outcome("info", name, FALSE, TRUE, readFails,
                       TableInfo(disk, name, readFails))
    /\ UNCHANGED <<disk, views, hist>>
    /\ UNCHANGED Elsewhere

Next ==
    \/ \E name \in Names, df \in Batches \cup {EmptyBatch} : AppendRosbag(name, df)
    \/ \E name \in Names, readFails \in BOOLEAN : GetTableInfo(name, readFails)
    \/ \E name \in Names, df \in Batches : AppendElsewhere(name, df)
    \/ \E order \in GlobOrders(disk) : EnsureViews(order)
    \/ \E name \in Names, order \in GlobOrders(disk) : Query(name, order)
    \/ \E name \in Names, unlinkFails \in BOOLEAN : DeleteTable(name, unlinkFails)

Spec == Init /\ [][Next]_vars

(***************************************************************************)
(* SpecRace: two processes on one catalog directory, each with its own     *)
(* DataCatalog (its own connection and views), each making one call of     *)
(* _append_dataframe(name, df) with a non-empty df.  Nothing locks the     *)
(* file: a step of the model is one line of the method, and the lines of   *)
(* the two calls interleave freely.                                        *)
(*   pc "idle"    not called yet                                           *)
(*      "exists"  at line 55, table_path.exists()                          *)
(*      "read"    at line 57, pd.read_parquet(table_path)                  *)
(*      "concat"  at line 58 or 60, combined_df is made                    *)
(*      "write"   at line 63, combined_df.to_parquet(table_path)           *)
(*      "view"    at lines 66-69, CREATE OR REPLACE VIEW                   *)
(*      "done"    returned, or raised                                      *)
(***************************************************************************)
Writers == {1, 2}

Other(w) == CHOOSE o \in Writers : o # w

NotStarted ==
    [pc |-> "idle", name |-> <<>>, df |-> NoFile, found |-> FALSE,
     existing |-> NoFile, combined |-> NoFile, raised |-> FALSE]

\* Lines 55-60: combined_df from what the call found and read.
Merged_Overwrite(found, existing, df) == df
Merged(found, existing, df) == IF found THEN Concat(existing, df) ELSE df

Running(w) == writers[w].pc \notin {"idle", "done"}

InitRace ==
    /\ \E prev \in Batches \cup {NoFile} :
          /\ disk = [f \in Files |-> IF f = PathOf(T1) THEN prev ELSE NoFile]
          /\ hist = [n \in Names |-> IF n = T1 /\ prev.exists THEN <<prev>> ELSE <<>>]
    /\ views = [w \in Writers |-> [n \in Names |-> NoView]]
    /\ last = <<>>
    /\ writers = [w \in Writers |-> NotStarted]
    /\ race = [before |-> disk, overlapped |-> FALSE]
    /\ IdleFlat
    /\ IdleRow

\* The variables a step of a call leaves alone besides those it names.
RaceFrame == <<msg, flat, stream, data, last>>

\* _append_dataframe(name, df) is called; the calls overlap when the other
\* process is inside its own call.
Begin(w, name, df) ==
    /\ writers[w].pc = "idle"
    /\ writers' = [writers EXCEPT ![w] = [@ EXCEPT !.pc = "exists", !.name = name, !.df = df]]
    /\ race' = [race EXCEPT !.overlapped = @ \/ Running(Other(w))]
    /\ UNCHANGED <<disk, views, hist>>
    /\ UNCHANGED RaceFrame

\* Line 55
Exists(w) ==
    /\ writers[w].pc = "exists"
    /\ LET found == disk[PathOf(writers[w].name)].exists IN
       writers' = [writers EXCEPT ![w] =
                      [@ EXCEPT !.found = found,
                                !.pc = IF found THEN "read" ELSE "concat"]]
    /\ UNCHANGED <<disk, views, hist, race>>
    /\ UNCHANGED RaceFrame

\* Line 57; reading a file that is not there raises.
ReadParquet(w) ==
    /\ writers[w].pc = "read"
    /\ LET f == disk[PathOf(writers[w].name)] IN
       writers' = [writers EXCEPT ![w] =
                      IF f.exists
                      THEN [@ EXCEPT !.existing = f, !.pc = "concat"]
                      ELSE [@ EXCEPT !.raised = TRUE, !.pc = "done"]]
    /\ UNCHANGED <<disk, views, hist, race>>
    /\ UNCHANGED RaceFrame

\* Line 58 or line 60
ConcatFrames(w) ==
    /\ writers[w].pc = "concat"
    /\ LET me == writers[w] IN
       writers' = [writers EXCEPT ![w] =
                      [me EXCEPT !.combined = Merged(me.found, me.existing, me.df),
                                 !.pc = "write"]]
    /\ UNCHANGED <<disk, views, hist, race>>
    /\ UNCHANGED RaceFrame

\* Line 63: the file is replaced by combined_df.
ToParquet(w) ==
    /\ writers[w].pc = "write"
    /\ disk' = [disk EXCEPT ![PathOf(writers[w].name)] = writers[w].combined]
    /\ hist' = [hist EXCEPT ![writers[w].name] = Append(@, writers[w].df)]
    /\ writers' = [writers EXCEPT ![w] = [@ EXCEPT !.pc = "view"]]
    /\ UNCHANGED <<views, race>>
    /\ UNCHANGED RaceFrame

\* Lines 66-69: the view statement on the process's own connection; a
\* rejected statement raises out of the call.
CreateView(w) ==
    /\ writers[w].pc = "view"
    /\ LET name == writers[w].name IN
       IF EngineAccepts(name)
       THEN /\ views' = [views EXCEPT ![w][name] = ViewOn(PathOf(name), disk[PathOf(name)])]
            /\ writers' = [writers EXCEPT ![w] = [@ EXCEPT !.pc = "done"]]
       ELSE /\ views' = views
            /\ writers' = [writers EXCEPT ![w] = [@ EXCEPT !.pc = "done", !.raised = TRUE]]
    /\ UNCHANGED <<disk, hist, race>>
    /\ UNCHANGED RaceFrame

NextRace ==
    \/ \E w \in Writers, name \in Names, df \in Batches : Begin(w, name, df)
    \/ \E w \in Writers : Exists(w)
    \/ \E w \in Writers : ReadParquet(w)
    \/ \E w \in Writers : ConcatFrames(w)
    \/ \E w \in Writers : ToParquet(w)
    \/ \E w \in Writers : CreateView(w)

SpecRace == InitRace /\ [][NextRace]_vars

(***************************************************************************)
(* Claims about the catalog (checked under Spec).  hist[name] holds the    *)
(* batches written to the table's file since the file was created.         *)
(***************************************************************************)
TableOf(name) == disk[PathOf(name)]

\* C1: append(T, A) then append(T, B) on a table that did not exist gives a
\* table of |A| + |B| rows whose columns are those of A and of B together;
\* the rows of A are null in the columns only B has, the rows of B are null
\* in the columns only A has.
C1_TwoAppends ==
    \A name \in Names :
        Len(hist[name]) = 2 =>
            LET A == hist[name][1]
                B == hist[name][2]
                t == TableOf(name)
            IN  /\ t.exists
                /\ Len(t.rows) = Len(A.rows) + Len(B.rows)
                /\ ColSet(t) = ColSet(A) \cup ColSet(B)
                /\ Cardinality(ColSet(t)) = Len(t.cols)
                /\ \A i \in 1..Len(A.rows) : \A c \in ColSet(B) \ ColSet(A) :
                      CellAt(t, i, c).null
                /\ \A i \in 1..Len(B.rows) : \A c \in ColSet(A) \ ColSet(B) :
                      CellAt(t, Len(A.rows) + i, c).null

\* C1 witness: a table made by two appends, the second bringing a column
\* the first did not have.
C1_Witness ==
    \E name \in Names :
        /\ Len(hist[name]) = 2
        /\ ColSet(hist[name][2]) \ ColSet(hist[name][1]) # {}
        /\ \E c \in ColSet(TableOf(name)) : CellAt(TableOf(name), 1, c).null

\* Rows written by the batches before the k-th.
RECURSIVE RowsBefore(_, _)
RowsBefore(h, k) == IF k <= 1 THEN 0 ELSE RowsBefore(h, k - 1) + Len(h[k - 1].rows)

\* The table holds the batches written to it, in order, each batch's rows in
\* order, null where a batch has no such column; its columns are the union
\* of the batches' columns.
C2_Rows ==
    \A name \in Names :
        hist[name] # <<>> =>
            LET h == hist[name]
                t == TableOf(name)
            IN  /\ t.exists
                /\ Len(t.rows) = RowsBefore(h, Len(h) + 1)
                /\ ColSet(t) = UNION { ColSet(h[k]) : k \in 1..Len(h) }
                /\ \A k \in 1..Len(h) : \A i \in 1..Len(h[k].rows) : \A c \in ColSet(t) :
                      CellAt(t, RowsBefore(h, k) + i, c) =
                          IF c \in ColSet(h[k]) THEN CellAt(h[k], i, c) ELSE NullCell

\* A file that is there before and after a step keeps its rows as the first
\* rows of the new content, null in the columns that were added.
C2_Prefix ==
    \A f \in Files :
        (disk[f].exists /\ disk'[f].exists) =>
            /\ Len(disk[f].rows) <= Len(disk'[f].rows)
            /\ ColSet(disk[f]) \subseteq ColSet(disk'[f])
            /\ \A i \in 1..Len(disk[f].rows) : \A c \in ColSet(disk'[f]) :
                  CellAt(disk'[f], i, c) =
                      IF c \in ColSet(disk[f]) THEN CellAt(disk[f], i, c) ELSE NullCell

\* C2: tables are append-only: the rows of a table are the appended batches
\* in append order, each in its own row order; the content before an append
\* is a prefix of the content after it, up to added null columns; the
\* columns are the union of the columns of all batches appended.
C2_AppendOnly == [](C2_Rows) /\ [][C2_Prefix]_vars

\* C2 witness: a table holding three batches, not all of the same columns.
C2_Witness ==
    \E name \in Names :
        /\ Len(hist[name]) = 3
        /\ ColSet(hist[name][1]) # ColSet(hist[name][2])
        /\ Len(TableOf(name).rows) >= 3

\* Every persisted table has a view of its name made from its current file.
AllViewsCurrent ==
    \A f \in ExistingFiles(disk) : views[Stem(f)] = ViewOn(f, disk[f])

\* C8 as claimed: in every reachable state ensure_views() completes, leaves
\* every listed table with a view on its current file, and a second call
\* changes no view.
C8_AsClaimed ==
    last.op = "ensure" =>
        /\ ~last.raised
        /\ \A name \in ListTables(disk) :
              views[name] = ViewOn(PathOf(name), TableOf(name))
        /\ \A order \in GlobOrders(disk) :
              LoadTables(views, disk, order, 1).views = views

C10_AsClaimed ==
    last.op = "delete" =>
        /\ ~last.ret => last.flag
        /\ last.ret =>
              /\ ~TableOf(last.name).exists
              /\ last.name \notin ListTables(disk)
              /\ ~views[last.name].bound
        /\ ~last.ret => TableOf(last.name).exists

\* What get_info reports of the table it was asked about.
C11_Reports ==
    last.op = "info" =>
        LET t == TableOf(last.name)
            h == hist[last.name]
            i == last.result
        IN  /\ ~last.raised
            /\ i.exists <=> t.exists
            /\ i.exists <=> h # <<>>
            /\ ~t.exists => i = NoInfo
            /\ t.exists => i.size_bytes = SizeOf(t)
            /\ (t.exists /\ ~last.flag) =>
                  /\ i.row_count = RowsBefore(h, Len(h) + 1)
                  /\ i.columns = t.cols
                  /\ { i.columns[j] : j \in 1..Len(i.columns) } =
                        UNION { ColSet(h[k]) : k \in 1..Len(h) }

\* A get_info step leaves files and views as they were.
C11_Frame == last'.op = "info" => UNCHANGED <<disk, views>>

\* C11: after any appends and deletes, get_info(T) reports exists exactly
\* when T has a file; with no file (never appended, or deleted since) it
\* reports exists=false, row_count=0, columns=[] and size_bytes=0; with a
\* readable file row_count is the number of rows appended to T since its
\* creation and columns are T's columns.  get_info changes no table and no
\* view.
C11_GetInfo == [](C11_Reports) /\ [][C11_Frame]_vars

\* C11 witness: get_info read a table of two batches of different columns.
C11_Witness ==
    /\ last.op = "info"
    /\ ~last.flag
    /\ Len(hist[last.name]) = 2
    /\ last.result.row_count >= 2
    /\ Len(last.result.columns) = 3

\* An append of the empty batch to `name` returns normally and leaves files,
\* views, the listing and what get_info tells of the table as they were.
C12_NoOp ==
    \A name \in Names :
        AppendRosbag(name, EmptyBatch) =>
            /\ ~last'.raised
            /\ disk' = disk
            /\ views' = views
            /\ ListTables(disk') = ListTables(disk)
            /\ TableInfo(disk', name, FALSE) = TableInfo(disk, name, FALSE)

\* C12: appending an empty batch to T is a no-op: no error, a T that did
\* not exist is not created (get_info still says exists=false, list_tables
\* does not gain T), an existing T keeps its rows and columns, and no view
\* is added or replaced.
C12_EmptyAppend == [][C12_NoOp]_vars

\* C12 witness: an empty batch was appended to a table that does not exist,
\* in a catalog that holds another table.
C12_Witness ==
    /\ last.op = "append"
    /\ last.flag
    /\ ~last.raised
    /\ ~TableOf(last.name).exists
    /\ last.name \notin ListTables(disk)
    /\ ~views[last.name].bound
    /\ ListTables(disk) # {}

\* Both calls are over and were appends to the same table.
BothAppended(name) ==
    \A w \in Writers : writers[w].pc = "done" /\ writers[w].name = name

\* The rows `name` should hold after both appends: those it had, and both
\* batches.
RowsDue(name) ==
    Len(race.before[PathOf(name)].rows)
        + Len(writers[1].df.rows) + Len(writers[2].df.rows)

\* C13, single writer: as long as no call began while the other process
\* was inside its own, every table holds the rows it had and the rows of
\* every batch written to it, in order; after both appends to one table it
\* holds the previous rows and all rows of both batches.
C13_OneAfterTheOther ==
    ~race.overlapped =>
        /\ C2_Rows
        /\ \A name \in Names :
              BothAppended(name) =>
                  /\ Len(TableOf(name).rows) = RowsDue(name)
                  /\ \A i \in 1..Len(race.before[PathOf(name)].rows) :
                        \A c \in ColSet(race.before[PathOf(name)]) :
                            CellAt(TableOf(name), i, c) =
                                CellAt(race.before[PathOf(name)], i, c)

\* C13, interleaved (witness): both appends to a table that had rows are
\* over, their steps interleaved, and the table has fewer rows than it had
\* plus those of the two batches: one batch is lost.
C13_LostUpdate ==
    \E name \in Names :
        /\ BothAppended(name)
        /\ race.overlapped
        /\ race.before[PathOf(name)].exists
        /\ \A w \in Writers : ~writers[w].raised
        /\ Len(TableOf(name).rows) < RowsDue(name)
        /\ \E w \in Writers :
              Len(TableOf(name).rows) =
                  Len(race.before[PathOf(name)].rows) + Len(writers[w].df.rows)

\* What statements over the tables other than `name` can give.
ExecuteOthers(v, d, name) ==
    [other \in Names \ {name} |->
        { Execute(v, d, other, order) : order \in GlobOrders(d) }]

\* A step that is an append raising to its caller changes no file, leaves
\* the listing as it was, and statements over the other tables give what
\* they gave before.
C14_NothingPersisted ==
    (last'.op = "append" /\ last'.raised) =>
        /\ disk' = disk
        /\ ListTables(disk') = ListTables(disk)
        /\ ExecuteOthers(views', disk', last'.name) =
              ExecuteOthers(views, disk, last'.name)

\* C14 as claimed: if append(T, rows) raises to the caller, the persisted
\* state of the catalog is as before the call: T's file is neither created
\* nor altered, list_tables() is unchanged and later statements over the
\* other tables behave as before.
C14_AsClaimed == [][C14_NothingPersisted]_vars

====
